---- MODULE Spec2Model ----
(***************************************************************************)
(* weather_task: the provider registry (weather-core/src/provider.rs), the *)
(* configuration store (weather-core/src/config.rs) and the two provider   *)
(* adapters (provider/openweather.rs, provider/weatherapi.rs).             *)
(*                                                                         *)
(* Instants are whole ticks; TicksPerDay ticks make one UTC calendar day.  *)
(* i64 values are modelled with IntBits bits, wrapping as the release      *)
(* build wraps and panicking as the debug build panics.                    *)
(***************************************************************************)
EXTENDS Integers, Sequences, FiniteSets, TLC

\* ------------------------------------------------------------------ bounds
\* Resolution of the clock: ticks per UTC calendar day.
TicksPerDay == 2
\* The clock Utc::now() runs over 0..MaxClock.
MaxClock == 3
\* Longest forecast / hourly list an upstream payload carries.
MaxList == 2
\* Width of the modelled i64.
IntBits == 6

\* ------------------------------------------------------- program constants
\* chrono::Duration::days(5), the OpenWeather forecast horizon.
ForecastDays == 5
\* const MAX: usize = 200 in truncate_body.
MAX == 200
\* Largest value of the u8 that humidity decodes into.
U8_MAX == 255

\* ------------------------------------------------------------- Option<T>
None == <<>>
Some(x) == <<x>>
IsSome(o) == Len(o) = 1
IsNone(o) == Len(o) = 0
Unwrap(o) == o[1]

\* ------------------------------------------------------------ ProviderId
ProviderId == {"OpenWeather", "WeatherApi"}

\* ProviderId::all(), in its order.
ProviderIdAll == <<"OpenWeather", "WeatherApi">>

\* Strings are sequences of characters.
StrOpenweather == <<"o", "p", "e", "n", "w", "e", "a", "t", "h", "e", "r">>
StrWeatherapi == <<"w", "e", "a", "t", "h", "e", "r", "a", "p", "i">>

as_str(id) ==
    IF id = "OpenWeather" THEN StrOpenweather ELSE StrWeatherapi

\* char::to_lowercase on the characters the model uses: a character lowers
\* to a string, and U+0130 (capital I with dot above) lowers to two
\* characters, i followed by the combining dot U+0307.
to_lowercase_char(c) ==
    CASE c = "A" -> <<"a">> [] c = "E" -> <<"e">> [] c = "H" -> <<"h">>
      [] c = "I" -> <<"i">> [] c = "N" -> <<"n">> [] c = "O" -> <<"o">>
      [] c = "P" -> <<"p">> [] c = "R" -> <<"r">> [] c = "T" -> <<"t">>
      [] c = "W" -> <<"w">> [] c = "U+0130" -> <<"i", "U+0307">>
      [] OTHER -> <<c>>

\* str::to_lowercase
RECURSIVE to_lowercase(_)
to_lowercase(s) ==
    IF s = <<>> THEN <<>>
    ELSE to_lowercase_char(Head(s)) \o to_lowercase(Tail(s))

\* A parser that compares the argument as it was typed.
try_from_as_typed(value) ==
    IF value = StrOpenweather THEN [ok |-> TRUE, id |-> "OpenWeather"]
    ELSE IF value = StrWeatherapi THEN [ok |-> TRUE, id |-> "WeatherApi"]
    ELSE [ok |-> FALSE,
          err |-> [kind |-> "UnknownProvider", value |-> value,
                   supported |-> {StrOpenweather, StrWeatherapi}]]

\* TryFrom<&str> for ProviderId: Ok(id) or the unknown-provider error.
try_from(value) ==
    LET lower == to_lowercase(value)
    IN  IF lower = StrOpenweather THEN [ok |-> TRUE, id |-> "OpenWeather"]
        ELSE IF lower = StrWeatherapi THEN [ok |-> TRUE, id |-> "WeatherApi"]
        ELSE [ok |-> FALSE,
              err |-> [kind |-> "UnknownProvider", value |-> value,
                       supported |-> {StrOpenweather, StrWeatherapi}]]

\* ---------------------------------------------------------------- Config
ApiKeys == {"KEY1", "KEY2"}

\* Config::default(): no default provider, no providers.
ConfigDefault == [default_provider |-> None, providers |-> <<>>]

\* Config::provider_api_key
provider_api_key(c, id) ==
    IF as_str(id) \in DOMAIN c.providers
    THEN Some(c.providers[as_str(id)].api_key)
    ELSE None

\* Config::is_provider_configured
is_provider_configured(c, id) == IsSome(provider_api_key(c, id))

\* Config::default_provider_id
default_provider_id(c) ==
    IF IsNone(c.default_provider)
    THEN [ok |-> FALSE, err |-> [kind |-> "NoDefaultProvider"]]
    ELSE try_from(Unwrap(c.default_provider))

\* Config::set_default_provider
set_default_provider(c, id) ==
    [c EXCEPT !.default_provider = Some(as_str(id))]

\* HashMap::insert
MapInsert(m, k, v) ==
    [x \in (DOMAIN m) \cup {k} |-> IF x = k THEN v ELSE m[x]]

\* An upsert that makes the provider it stores the default each time.
upsert_provider_api_key_taking_default(c, id, api_key) ==
    [default_provider |-> Some(as_str(id)),
     providers |-> MapInsert(c.providers, as_str(id), [api_key |-> api_key])]

\* Config::upsert_provider_api_key
upsert_provider_api_key(c, id, api_key) ==
    LET inserted == [c EXCEPT !.providers =
                        MapInsert(c.providers, as_str(id), [api_key |-> api_key])]
    IN  IF IsNone(inserted.default_provider)
        THEN [inserted EXCEPT !.default_provider = Some(as_str(id))]
        ELSE inserted

\* ----------------------------------------------------------- config.toml
\* toml::to_string_pretty(&Config): a document with the providers table and,
\* when a default is set, the default_provider key (None is not written).
to_string_pretty(c) ==
    [k \in {"providers"} \cup
            (IF IsSome(c.default_provider) THEN {"default_provider"} ELSE {}) |->
        IF k = "providers" THEN c.providers ELSE Unwrap(c.default_provider)]

\* toml::from_str::<Config>: providers is a required field, default_provider
\* an optional one.
from_str(doc) ==
    IF "providers" \notin DOMAIN doc
    THEN [ok |-> FALSE, err |-> [kind |-> "ParseConfig"]]
    ELSE [ok |-> TRUE,
          cfg |-> [default_provider |->
                       IF "default_provider" \in DOMAIN doc
                       THEN Some(doc["default_provider"]) ELSE None,
                   providers |-> doc["providers"]]]

\* Config::load: the empty default when the file does not exist yet.
load(file) ==
    IF IsNone(file) THEN [ok |-> TRUE, cfg |-> ConfigDefault]
    ELSE from_str(Unwrap(file))

\* Config::save: the file now holds the serialized configuration.
save(c) == Some(to_string_pretty(c))

\* -------------------------------------------------------------- registry
\* A registry call's result: ok / err, the adapter built, and the steps the
\* call performed, in order.

\* OpenWeatherProvider::new / WeatherApiProvider::new: the key and a fresh
\* reqwest Client; nothing is sent.
ProviderNew(id, api_key) == [id |-> id, api_key |-> api_key]

\* A registry that probes the upstream while it builds the adapter.
provider_from_config_pinging(id, c) ==
    LET key == provider_api_key(c, id)
    IN  IF IsNone(key)
        THEN [ok |-> FALSE, adapter |-> None,
              err |-> [kind |-> "MissingApiKey", id |-> id],
              steps |-> <<"http_get", "provider_api_key">>]
        ELSE [ok |-> TRUE, adapter |-> Some(ProviderNew(id, Unwrap(key))),
              err |-> None,
              steps |-> <<"provider_api_key", "Provider::new", "http_get">>]

provider_from_config(id, c) ==
    LET key == provider_api_key(c, id)
    IN  IF IsNone(key)
        THEN [ok |-> FALSE, adapter |-> None,
              err |-> [kind |-> "MissingApiKey", id |-> id],
              steps |-> <<"provider_api_key">>]
        ELSE [ok |-> TRUE, adapter |-> Some(ProviderNew(id, Unwrap(key))),
              err |-> None,
              steps |-> <<"provider_api_key", "Provider::new">>]

\* A registry that looks a key up before it reads the default provider.
default_provider_from_config_key_first(c) ==
    LET first == provider_from_config(ProviderIdAll[1], c)
        idr == default_provider_id(c)
    IN  IF ~first.ok /\ ~idr.ok
        THEN [first EXCEPT !.steps = first.steps \o <<"default_provider_id">>]
        ELSE IF ~idr.ok
        THEN [ok |-> FALSE, adapter |-> None, err |-> idr.err,
              steps |-> first.steps \o <<"default_provider_id">>]
        ELSE provider_from_config(idr.id, c)

default_provider_from_config(c) ==
    LET idr == default_provider_id(c)
    IN  IF ~idr.ok
        THEN [ok |-> FALSE, adapter |-> None, err |-> idr.err,
              steps |-> <<"default_provider_id">>]
        ELSE LET r == provider_from_config(idr.id, c)
             IN  [r EXCEPT !.steps = <<"default_provider_id">> \o r.steps]

\* ------------------------------------------------------------------ time
\* Requested instants run over 0..MaxTime: up to six days past the clock.
MaxTime == MaxClock + (ForecastDays + 1) * TicksPerDay

\* DateTime::date_naive: the UTC calendar day of an instant.
date_naive(t) == t \div TicksPerDay

\* Timelike::hour: the position of an instant within its day.
hour(t) == t % TicksPerDay

\* DateTime::timestamp: whole seconds since the epoch; the model's instants
\* carry no fraction of a second.
timestamp(t) == t

\* now + chrono::Duration::days(5)
plus_days(t, days) == t + days * TicksPerDay

\* A classification that counts the instant now itself as past.
classify_date_inclusive_past(now_, when) ==
    IF IsNone(when) THEN [tag |-> "Current"]
    ELSE IF Unwrap(when) <= now_ THEN [tag |-> "Past", dt |-> Unwrap(when)]
    ELSE [tag |-> "Future", dt |-> Unwrap(when)]

\* classify_date
classify_date(now_, when) ==
    IF IsNone(when) THEN [tag |-> "Current"]
    ELSE IF Unwrap(when) < now_ THEN [tag |-> "Past", dt |-> Unwrap(when)]
    ELSE [tag |-> "Future", dt |-> Unwrap(when)]

\* ------------------------------------------------------------------- i64
IntMin == -(2 ^ (IntBits - 1))
IntMax == (2 ^ (IntBits - 1)) - 1
Wrap(x) == ((x - IntMin) % (2 ^ IntBits)) + IntMin

\* The instants chrono represents: a small part of the i64 range.
ChronoMax == 2 ^ (IntBits - 2)

\* (e.dt - target_ts).abs(): with overflow checks (debug build) either step
\* panics on overflow; without them (release build) both wrap.
abs_diff_key(dt, target_ts, overflow_checks) ==
    LET exact == dt - target_ts
        diff == Wrap(exact)
        sub_overflows == exact # diff
        abs_overflows == diff = IntMin
    IN  IF overflow_checks /\ (sub_overflows \/ abs_overflows)
        THEN [panic |-> TRUE, key |-> 0]
        ELSE [panic |-> FALSE, key |-> IF diff < 0 /\ diff # IntMin THEN -diff ELSE diff]

\* Iterator::min_by_key's fold: the accumulator is replaced only by a
\* strictly smaller key.
RECURSIVE MinFold(_, _, _)
MinFold(keys, i, best) ==
    IF i > Len(keys) THEN best
    ELSE MinFold(keys, i + 1, IF keys[best] > keys[i] THEN i ELSE best)

\* .iter().min_by_key(|e| (e.dt - target_ts).abs()) over the timestamps of a
\* list: None for the empty list, a panic, or the index selected.
min_by_key(dts, target_ts, overflow_checks) ==
    LET ks == [i \in DOMAIN dts |-> abs_diff_key(dts[i], target_ts, overflow_checks)]
    IN  IF Len(dts) = 0 THEN [panic |-> FALSE, index |-> None]
        ELSE IF \E i \in DOMAIN ks : ks[i].panic THEN [panic |-> TRUE, index |-> None]
        ELSE [panic |-> FALSE,
              index |-> Some(MinFold([i \in DOMAIN ks |-> ks[i].key], 2, 1))]

\* unix_to_utc (openweather.rs): NaiveDateTime::from_timestamp_opt(ts, 0).
ow_unix_to_utc(ts) ==
    IF -ChronoMax <= ts /\ ts <= ChronoMax THEN Some(ts) ELSE None

\* unix_to_utc (weatherapi.rs)
wa_unix_to_utc(ts) ==
    IF -ChronoMax <= ts /\ ts <= ChronoMax THEN Some(ts) ELSE None

\* ------------------------------------------------------- response bodies
\* A body text is a sequence of runs [c, n]: the character c, n times over.
\* Utf8Len is a character's length in bytes.
Utf8Len(c) == IF c = "U+00E9" THEN 2 ELSE 1
Str(c, n) == IF n = 0 THEN <<>> ELSE <<[c |-> c, n |-> n]>>
RunBytes(r) == r.n * Utf8Len(r.c)

\* str::len: the length in bytes
RECURSIVE ByteLen(_)
ByteLen(s) == IF Len(s) = 0 THEN 0 ELSE RunBytes(Head(s)) + ByteLen(Tail(s))

\* str::is_char_boundary
RECURSIVE is_char_boundary(_, _)
is_char_boundary(s, idx) ==
    IF idx = 0 THEN TRUE
    ELSE IF Len(s) = 0 THEN FALSE
    ELSE IF idx >= RunBytes(Head(s))
    THEN is_char_boundary(Tail(s), idx - RunBytes(Head(s)))
    ELSE idx % Utf8Len(Head(s).c) = 0

\* &body[..idx] for idx on a character boundary
RECURSIVE ByteSlice(_, _)
ByteSlice(s, idx) ==
    IF idx = 0 \/ Len(s) = 0 THEN <<>>
    ELSE IF idx >= RunBytes(Head(s))
    THEN <<Head(s)>> \o ByteSlice(Tail(s), idx - RunBytes(Head(s)))
    ELSE Str(Head(s).c, idx \div Utf8Len(Head(s).c))

Ellipsis == Str(".", 3)

\* truncate_body (openweather.rs): slicing off a character boundary panics.
ow_truncate_body(body) ==
    IF ByteLen(body) > MAX
    THEN IF is_char_boundary(body, MAX)
         THEN [panic |-> FALSE, s |-> ByteSlice(body, MAX) \o Ellipsis]
         ELSE [panic |-> TRUE, s |-> <<>>]
    ELSE [panic |-> FALSE, s |-> body]

\* truncate_body (weatherapi.rs)
wa_truncate_body(body) ==
    IF ByteLen(body) > MAX
    THEN IF is_char_boundary(body, MAX)
         THEN [panic |-> FALSE, s |-> ByteSlice(body, MAX) \o Ellipsis]
         ELSE [panic |-> TRUE, s |-> <<>>]
    ELSE [panic |-> FALSE, s |-> body]

\* StatusCode::is_success
is_success(status) == 200 <= status /\ status <= 299

\* ------------------------------------------------------- upstream payloads
\* A JSON object is a record whose fields are Option values: None for a key
\* the payload does not carry.  NotJson is a body that is not JSON at all.
NotJson == [not_json |-> TRUE]
IsJson(j) == "not_json" \notin DOMAIN j

\* Numbers stand for the f64 fields; a wind speed is the pair <<n, d>> = n/d.
RECURSIVE Gcd(_, _)
Gcd(a, b) == IF b = 0 THEN a ELSE Gcd(b, a % b)
Rat(n, d) == <<n \div Gcd(n, d), d \div Gcd(n, d)>>

OwWeatherJson(description) == [description |-> description]
OwMainJson(humidity) ==
    [temp |-> Some(5), feels_like |-> Some(2), humidity |-> humidity]
OwWindJson == [speed |-> Some(Rat(3, 1))]

\* {name, dt, main:{temp, feels_like, humidity}, weather:[..], wind:{speed}}
OwCurrentJson(dt, humidity, weather) ==
    [name |-> Some("Kyiv"), dt |-> dt, main |-> Some(OwMainJson(humidity)),
     weather |-> weather, wind |-> Some(OwWindJson)]

\* One element of the forecast list.
OwEntryJson(dt, humidity, weather) ==
    [dt |-> dt, main |-> Some(OwMainJson(humidity)),
     weather |-> weather, wind |-> Some(OwWindJson)]

\* {city:{name, country}, list:[..]}
OwForecastJson(list) ==
    [city |-> Some([name |-> Some("Kyiv"), country |-> Some("UA")]), list |-> list]

WaConditionJson(text) == [text |-> text]
WaLocationJson(localtime_epoch) ==
    [name |-> Some("Kyiv"), localtime_epoch |-> localtime_epoch]

\* {location:{..}, current:{temp_c, feelslike_c, humidity, wind_kph,
\*  condition:{text}, last_updated_epoch?}}
WaCurrentJson(localtime_epoch, last_updated_epoch, humidity, condition) ==
    [location |-> Some(WaLocationJson(localtime_epoch)),
     current |-> Some([temp_c |-> Some(5), feelslike_c |-> Some(2),
                       humidity |-> humidity, wind_kph |-> Some(36),
                       condition |-> condition,
                       last_updated_epoch |-> last_updated_epoch])]

WaHourJson(time_epoch, humidity, condition) ==
    [time_epoch |-> time_epoch, temp_c |-> Some(5), feelslike_c |-> Some(2),
     humidity |-> humidity, wind_kph |-> Some(36), condition |-> condition]

WaDayJson(hours) == [hour |-> hours]

\* {location:{..}, forecast:{forecastday:[{hour:[..]}]}}
WaForecastJson(forecastday) ==
    [location |-> Some(WaLocationJson(None)),
     forecast |-> Some([forecastday |-> forecastday])]

\* ---- serde: what each struct's Deserialize accepts
\* u8: an integer in 0..=255.
IsU8(v) == IsSome(v) /\ Unwrap(v) \in 0..U8_MAX
\* i64
IsI64(v) == IsSome(v) /\ Unwrap(v) \in IntMin..IntMax

\* struct OwMain
DecodesOwMain(m) ==
    IsSome(m) /\ IsSome(Unwrap(m).temp) /\ IsSome(Unwrap(m).feels_like)
              /\ IsU8(Unwrap(m).humidity)
\* Vec<OwWeather>
DecodesOwWeather(w) ==
    IsSome(w) /\ \A i \in DOMAIN Unwrap(w) : IsSome(Unwrap(w)[i].description)
\* struct OwWind
DecodesOwWind(w) == IsSome(w) /\ IsSome(Unwrap(w).speed)
\* struct OwForecastEntry
DecodesOwEntry(e) ==
    IsI64(e.dt) /\ DecodesOwMain(e.main) /\ DecodesOwWeather(e.weather)
                /\ DecodesOwWind(e.wind)
\* struct OwCurrentResponse, through serde_json::from_str
DecodesOwCurrent(j) ==
    IsJson(j) /\ IsSome(j.name) /\ IsI64(j.dt) /\ DecodesOwMain(j.main)
              /\ DecodesOwWeather(j.weather) /\ DecodesOwWind(j.wind)
\* struct OwForecastResponse, through serde_json::from_str
DecodesOwForecast(j) ==
    IsJson(j) /\ IsSome(j.city) /\ IsSome(Unwrap(j.city).name)
              /\ IsSome(Unwrap(j.city).country) /\ IsSome(j.list)
              /\ \A i \in DOMAIN Unwrap(j.list) : DecodesOwEntry(Unwrap(j.list)[i])

\* struct WaCondition
DecodesWaCondition(c) == IsSome(c) /\ IsSome(Unwrap(c).text)
\* Option<i64>: an absent key is None
DecodesOptI64(v) == IsNone(v) \/ IsI64(v)
\* struct WaLocation
DecodesWaLocation(l) ==
    IsSome(l) /\ IsSome(Unwrap(l).name) /\ DecodesOptI64(Unwrap(l).localtime_epoch)
\* struct WaCurrent
DecodesWaCurrent(c) ==
    IsSome(c) /\ IsSome(Unwrap(c).temp_c) /\ IsSome(Unwrap(c).feelslike_c)
              /\ IsU8(Unwrap(c).humidity) /\ IsSome(Unwrap(c).wind_kph)
              /\ DecodesWaCondition(Unwrap(c).condition)
              /\ DecodesOptI64(Unwrap(c).last_updated_epoch)
\* struct WaResponse, through serde_json::from_str
DecodesWaResponse(j) ==
    IsJson(j) /\ DecodesWaLocation(j.location) /\ DecodesWaCurrent(j.current)
\* struct WaForecastHour
DecodesWaHour(h) ==
    IsI64(h.time_epoch) /\ IsSome(h.temp_c) /\ IsSome(h.feelslike_c)
                        /\ IsU8(h.humidity) /\ IsSome(h.wind_kph)
                        /\ DecodesWaCondition(h.condition)
\* struct WaForecastDay
DecodesWaDay(d) ==
    IsSome(d.hour) /\ \A i \in DOMAIN Unwrap(d.hour) : DecodesWaHour(Unwrap(d.hour)[i])
\* struct WaForecastResponse, through serde_json::from_str
DecodesWaForecast(j) ==
    IsJson(j) /\ DecodesWaLocation(j.location) /\ IsSome(j.forecast)
              /\ IsSome(Unwrap(j.forecast).forecastday)
              /\ \A i \in DOMAIN Unwrap(Unwrap(j.forecast).forecastday) :
                     DecodesWaDay(Unwrap(Unwrap(j.forecast).forecastday)[i])

\* ------------------------------------------------- get_weather, both adapters
\* WeatherRequest
WeatherRequest(address, when) == [address |-> address, when |-> when]

\* How a get_weather call stands: what it sent and, once it is over, its
\* result.  outcome is "ok" (Ok(WeatherResponse)), "err" (Err) or "panic".
IdleCall ==
    [pc |-> "idle", id |-> None, when |-> None, now |-> None, date_req |-> None,
     sent |-> <<>>, resp |-> None, outcome |-> "none", err |-> None,
     obs |-> None, selected |-> None]

\* The call awaits the response to the one request it sent.
Sending(c, request) == [c EXCEPT !.pc = "waiting", !.sent = Append(c.sent, request)]
\* return Err(..)
ReturnErr(c, e) == [c EXCEPT !.pc = "done", !.outcome = "err", !.err = Some(e)]
\* return Ok(WeatherResponse {..})
ReturnOk(c, o) == [c EXCEPT !.pc = "done", !.outcome = "ok", !.obs = Some(o)]
\* the task unwinds: no value is returned
Panics(c) == [c EXCEPT !.pc = "done", !.outcome = "panic"]

OW_CURRENT_URL == "https://api.openweathermap.org/data/2.5/weather"
OW_FORECAST_URL == "https://api.openweathermap.org/data/2.5/forecast"
WA_CURRENT_URL == "http://api.weatherapi.com/v1/current.json"
WA_FORECAST_URL == "http://api.weatherapi.com/v1/forecast.json"
WA_HISTORY_URL == "http://api.weatherapi.com/v1/history.json"

\* ---- OpenWeather
\* .get(url).query(&[("q", address), ("appid", key), ("units", "metric")])
OwQuery(url, adapter, address) ==
    [url |-> url, q |-> address, key |-> adapter.api_key, units |-> Some("metric"),
     unixdt |-> None, hour |-> None]

\* A Past arm whose message names the clock instead of the requested instant.
ow_past_naming_now(c, dt) == ReturnErr(c, [kind |-> "Historical", dt |-> Unwrap(c.now)])

\* the DateRequest::Past(dt) arm: Err(anyhow!("Historical weather ({dt}) .."))
ow_past(c, dt) == ReturnErr(c, [kind |-> "Historical", dt |-> dt])

\* A horizon that leaves its last instant out.
ow_exceeds_limit_inclusive(dt, max_forecast) == dt >= max_forecast

\* dt > max_forecast
ow_exceeds_limit(dt, max_forecast) == dt > max_forecast

\* OpenWeatherProvider::get_weather, up to the request it sends
ow_get_weather(adapter, request, now_) ==
    LET date_req == classify_date(now_, request.when)
        c == [IdleCall EXCEPT !.id = Some("OpenWeather"), !.when = request.when,
                              !.now = Some(now_), !.date_req = Some(date_req)]
        max_forecast == plus_days(now_, ForecastDays)
    IN  CASE date_req.tag = "Current" ->
               Sending(c, OwQuery(OW_CURRENT_URL, adapter, request.address))
          [] date_req.tag = "Past" ->
               ow_past(c, date_req.dt)
          [] date_req.tag = "Future" ->
               IF ow_exceeds_limit(date_req.dt, max_forecast)
               THEN ReturnErr(c, [kind |-> "ForecastLimit", dt |-> date_req.dt,
                                  max_forecast |-> max_forecast])
               ELSE Sending(c, OwQuery(OW_FORECAST_URL, adapter, request.address))

\* A condition taken from the last description instead of the first.
ow_condition_last(weather) ==
    IF Len(weather) > 0 THEN Unwrap(weather[Len(weather)].description) ELSE "Unknown"

\* .weather.first().map(|w| w.description.clone()).unwrap_or_else(|| "Unknown")
ow_condition(weather) ==
    IF Len(weather) > 0 THEN Unwrap(weather[1].description) ELSE "Unknown"

\* Option::unwrap_or_else(Utc::now): the clock is read when the value is built
unwrap_or_now(o, clock) == IF IsSome(o) THEN Unwrap(o) ELSE clock

\* the failures before a status is at hand: .send() and .text()
TransportErr(resp) == [kind |-> "Transport", context |-> resp.kind]

\* OpenWeatherProvider::fetch_current, from the response on
ow_fetch_current(c, resp, clock) ==
    IF resp.kind # "http" THEN ReturnErr(c, TransportErr(resp))
    ELSE IF ~is_success(resp.status)
    THEN LET t == ow_truncate_body(resp.text)
         IN  IF t.panic THEN Panics(c)
             ELSE ReturnErr(c, [kind |-> "Status", status |-> resp.status,
                                excerpt |-> t.s])
    ELSE IF ~DecodesOwCurrent(resp.json) THEN ReturnErr(c, [kind |-> "Decode"])
    ELSE LET parsed == resp.json
             main == Unwrap(parsed.main)
         IN  ReturnOk(c,
                 [provider |-> "openweather",
                  location_name |-> Unwrap(parsed.name),
                  temperature_c |-> Unwrap(main.temp),
                  feels_like_c |-> Unwrap(main.feels_like),
                  condition |-> ow_condition(Unwrap(parsed.weather)),
                  humidity_pct |-> Unwrap(main.humidity),
                  wind_speed_mps |-> Unwrap(Unwrap(parsed.wind).speed),
                  observation_time |->
                      unwrap_or_now(ow_unix_to_utc(Unwrap(parsed.dt)), clock)])

\* OpenWeatherProvider::fetch_forecast, from the response on
ow_fetch_forecast(c, resp, clock, overflow_checks) ==
    IF resp.kind # "http" THEN ReturnErr(c, TransportErr(resp))
    ELSE IF ~is_success(resp.status)
    THEN LET t == ow_truncate_body(resp.text)
         IN  IF t.panic THEN Panics(c)
             ELSE ReturnErr(c, [kind |-> "Status", status |-> resp.status,
                                excerpt |-> t.s])
    ELSE IF ~DecodesOwForecast(resp.json) THEN ReturnErr(c, [kind |-> "Decode"])
    ELSE LET parsed == resp.json
             list == Unwrap(parsed.list)
             target_ts == timestamp(Unwrap(c.when))
             sel == min_by_key([i \in DOMAIN list |-> Unwrap(list[i].dt)],
                               target_ts, overflow_checks)
         IN  IF sel.panic THEN Panics(c)
             ELSE IF IsNone(sel.index) THEN ReturnErr(c, [kind |-> "NoData"])
             ELSE LET entry == list[Unwrap(sel.index)]
                      main == Unwrap(entry.main)
                      city == Unwrap(parsed.city)
                  IN  ReturnOk([c EXCEPT !.selected = sel.index],
                          [provider |-> "openweather",
                           location_name |->
                               <<Unwrap(city.name), ", ", Unwrap(city.country)>>,
                           temperature_c |-> Unwrap(main.temp),
                           feels_like_c |-> Unwrap(main.feels_like),
                           condition |-> ow_condition(Unwrap(entry.weather)),
                           humidity_pct |-> Unwrap(main.humidity),
                           wind_speed_mps |-> Unwrap(Unwrap(entry.wind).speed),
                           observation_time |->
                               unwrap_or_now(ow_unix_to_utc(Unwrap(entry.dt)), clock)])

\* ---- WeatherApi
\* .get(url).query(&[("key", key), ("q", address)]) and, off the current
\* path, ("unixdt", ..), ("hour", ..)
WaQuery(url, adapter, address, unixdt, hour_) ==
    [url |-> url, q |-> address, key |-> adapter.api_key, units |-> None,
     unixdt |-> unixdt, hour |-> hour_]

\* An endpoint chosen by comparing instants, as classify_date would.
wa_endpoint_by_instant(when, now_) ==
    IF IsNone(when) THEN WA_CURRENT_URL
    ELSE IF Unwrap(when) >= now_ THEN WA_FORECAST_URL
    ELSE WA_HISTORY_URL

\* the endpoint get_weather asks: by calendar day, not by instant
wa_endpoint(when, now_) ==
    LET target == IF IsSome(when) THEN Unwrap(when) ELSE now_
        today == date_naive(now_)
        target_date == date_naive(target)
    IN  IF IsNone(when) \/ target_date = today THEN WA_CURRENT_URL
        ELSE IF target_date > today THEN WA_FORECAST_URL
        ELSE WA_HISTORY_URL

\* WeatherApiProvider::get_weather, up to the request it sends
wa_get_weather(adapter, request, now_) ==
    LET target == IF IsSome(request.when) THEN Unwrap(request.when) ELSE now_
        c == [IdleCall EXCEPT !.id = Some("WeatherApi"), !.when = request.when,
                              !.now = Some(now_)]
        url == wa_endpoint(request.when, now_)
    IN  IF url = WA_CURRENT_URL
        THEN Sending(c, WaQuery(url, adapter, request.address, None, None))
        ELSE Sending(c, WaQuery(url, adapter, request.address,
                                Some(timestamp(target)), Some(hour(target))))

\* A wind speed passed on in km/h.
kph_unconverted(wind_kph) == Rat(wind_kph, 1)

\* wind_kph / 3.6
kph_to_mps(wind_kph) == Rat(wind_kph * 10, 36)

\* the current branch of WeatherApiProvider::get_weather, from the response on
wa_current(c, resp, clock) ==
    IF resp.kind # "http" THEN ReturnErr(c, TransportErr(resp))
    ELSE IF ~is_success(resp.status)
    THEN LET t == wa_truncate_body(resp.text)
         IN  IF t.panic THEN Panics(c)
             ELSE ReturnErr(c, [kind |-> "Status", status |-> resp.status,
                                excerpt |-> t.s])
    ELSE IF ~DecodesWaResponse(resp.json) THEN ReturnErr(c, [kind |-> "Decode"])
    ELSE LET location == Unwrap(resp.json.location)
             current == Unwrap(resp.json.current)
             ts == IF IsSome(current.last_updated_epoch)
                   THEN current.last_updated_epoch
                   ELSE location.localtime_epoch
             utc == IF IsSome(ts) THEN wa_unix_to_utc(Unwrap(ts)) ELSE None
         IN  ReturnOk(c,
                 [provider |-> "weatherapi",
                  location_name |-> Unwrap(location.name),
                  temperature_c |-> Unwrap(current.temp_c),
                  feels_like_c |-> Unwrap(current.feelslike_c),
                  condition |-> Unwrap(Unwrap(current.condition).text),
                  humidity_pct |-> Unwrap(current.humidity),
                  wind_speed_mps |-> kph_to_mps(Unwrap(current.wind_kph)),
                  observation_time |-> unwrap_or_now(utc, clock)])

\* the forecast / history branch, from the response on
wa_forecast_history(c, resp, clock, overflow_checks) ==
    IF resp.kind # "http" THEN ReturnErr(c, TransportErr(resp))
    ELSE IF ~is_success(resp.status)
    THEN LET t == wa_truncate_body(resp.text)
         IN  IF t.panic THEN Panics(c)
             ELSE ReturnErr(c, [kind |-> "Status", status |-> resp.status,
                                excerpt |-> t.s])
    ELSE IF ~DecodesWaForecast(resp.json) THEN ReturnErr(c, [kind |-> "Decode"])
    ELSE LET location == Unwrap(resp.json.location)
             forecastday == Unwrap(Unwrap(resp.json.forecast).forecastday)
             unixdt == Unwrap(c.sent[1].unixdt)
         IN  IF Len(forecastday) = 0
             THEN ReturnErr(c, [kind |-> "NoData", what |-> "forecastday"])
             ELSE LET hours == Unwrap(forecastday[1].hour)
                      sel == min_by_key([i \in DOMAIN hours |->
                                            Unwrap(hours[i].time_epoch)],
                                        unixdt, overflow_checks)
                  IN  IF sel.panic THEN Panics(c)
                      ELSE IF IsNone(sel.index)
                      THEN ReturnErr(c, [kind |-> "NoData", what |-> "hour"])
                      ELSE LET hour_entry == hours[Unwrap(sel.index)]
                           IN  ReturnOk([c EXCEPT !.selected = sel.index],
                                   [provider |-> "weatherapi",
                                    location_name |-> Unwrap(location.name),
                                    temperature_c |-> Unwrap(hour_entry.temp_c),
                                    feels_like_c |-> Unwrap(hour_entry.feelslike_c),
                                    condition |->
                                        Unwrap(Unwrap(hour_entry.condition).text),
                                    humidity_pct |-> Unwrap(hour_entry.humidity),
                                    wind_speed_mps |->
                                        kph_to_mps(Unwrap(hour_entry.wind_kph)),
                                    observation_time |->
                                        unwrap_or_now(
                                            wa_unix_to_utc(
                                                Unwrap(hour_entry.time_epoch)),
                                            clock)])

\* ------------------------------------------------------------ the inputs
\* Each family of payloads varies one field of a well-formed payload.
SeqsUpTo(S, n) == UNION {[1..k -> S] : k \in 0..n}

\* Timestamps an upstream may send: the ends of the i64 range and instants
\* near the requested ones.
EpochSamples == {IntMin, IntMin + 1, 0, 1, 3}
HumiditySamples ==
    {None, Some(-1), Some(0), Some(100), Some(101), Some(U8_MAX), Some(U8_MAX + 1)}
BaseWeather == Some(<<OwWeatherJson(Some("clear sky"))>>)
TwoWeather == Some(<<OwWeatherJson(Some("mist")), OwWeatherJson(Some("clear sky"))>>)
WeatherSamples == {None, Some(<<>>), Some(<<OwWeatherJson(None)>>), TwoWeather}

OwCurrentPayloads ==
    {NotJson, OwCurrentJson(None, Some(80), BaseWeather)}
    \cup {OwCurrentJson(Some(d), Some(80), BaseWeather) : d \in EpochSamples}
    \cup {OwCurrentJson(Some(1), h, BaseWeather) : h \in HumiditySamples}
    \cup {OwCurrentJson(Some(1), Some(80), w) : w \in WeatherSamples}

OwEntrySamples ==
    {OwEntryJson(Some(d), Some(80), BaseWeather) : d \in EpochSamples}
    \cup {OwEntryJson(Some(1), h, BaseWeather) : h \in {Some(101), Some(U8_MAX + 1)}}
    \cup {OwEntryJson(Some(1), Some(80), w) : w \in {Some(<<>>), TwoWeather}}

OwForecastPayloads ==
    {NotJson, OwForecastJson(None)}
    \cup {OwForecastJson(Some(l)) : l \in SeqsUpTo(OwEntrySamples, MaxList)}

WaBaseCondition == Some(WaConditionJson(Some("Sunny")))
WaConditionSamples == {None, Some(WaConditionJson(None))}
OptEpochSamples == {None} \cup {Some(d) : d \in EpochSamples}

WaCurrentPayloads ==
    {NotJson}
    \cup {WaCurrentJson(lt, lu, Some(80), WaBaseCondition) :
             lt \in OptEpochSamples, lu \in OptEpochSamples}
    \cup {WaCurrentJson(None, Some(1), h, WaBaseCondition) : h \in HumiditySamples}
    \cup {WaCurrentJson(None, Some(1), Some(80), c) : c \in WaConditionSamples}

WaBaseHour == WaHourJson(Some(1), Some(80), WaBaseCondition)
WaHourSamples ==
    {WaHourJson(Some(d), Some(80), WaBaseCondition) : d \in EpochSamples}
    \cup {WaHourJson(Some(1), h, WaBaseCondition) : h \in {Some(101), Some(U8_MAX + 1)}}
    \cup {WaHourJson(Some(1), Some(80), c) : c \in WaConditionSamples}

WaDayLists ==
    {<<>>, <<WaDayJson(None)>>,
     <<WaDayJson(Some(<<>>)), WaDayJson(Some(<<WaBaseHour>>))>>,
     <<WaDayJson(Some(<<WaBaseHour>>)), WaDayJson(Some(<<>>))>>}
    \cup {<<WaDayJson(Some(hs))>> : hs \in SeqsUpTo(WaHourSamples, MaxList)}

WaForecastPayloads ==
    {NotJson, WaForecastJson(None)}
    \cup {WaForecastJson(Some(days)) : days \in WaDayLists}

\* Bodies of non-2xx responses: short, at the limit, one byte over, and with a
\* two-byte character across or after the limit.
ErrorBodies ==
    {<<>>, Str("x", 3), Str("x", MAX), Str("x", MAX + 1),
     Str("x", MAX - 1) \o Str("U+00E9", 1), Str("x", MAX) \o Str("U+00E9", 1)}

\* What the transport hands back for a request whose 2xx payloads are P.
Responses(P) ==
    {[kind |-> "send_failed"], [kind |-> "read_failed"]}
    \cup {[kind |-> "http", status |-> st, text |-> b] :
             st \in {404, 500}, b \in ErrorBodies}
    \cup {[kind |-> "http", status |-> 200, json |-> j] : j \in P}

Whens == {None} \cup {Some(t) : t \in 0..MaxTime}
Address == "Kyiv"

\* ----------------------------------------------------------------- state
VARIABLES
    cfg,        \* the Config the registry reads
    registry,   \* the last registry call and its result
    now,        \* the clock, Utc::now()
    call,       \* the get_weather call in flight, or the last one finished
    disk,       \* config.toml: None while the file does not exist
    cli         \* the last command the CLI ran, and how it ended

vars == <<cfg, registry, now, call, disk, cli>>

NoRegistryCall == [op |-> "none", id |-> None, cfg |-> None, result |-> None]

NoCommand == [op |-> "none"]

\* A configuration with a key for each provider, as two runs of
\* `weather configure` leave it.
BothConfigured ==
    upsert_provider_api_key(
        upsert_provider_api_key(ConfigDefault, "OpenWeather", "KEY1"),
        "WeatherApi", "KEY2")

Init ==
    /\ cfg = BothConfigured
    /\ registry = NoRegistryCall
    /\ now = 0
    /\ call = IdleCall
    /\ disk = save(cfg)
    /\ cli = NoCommand

\* Time passes.
Tick ==
    /\ now < MaxClock
    /\ now' = now + 1
    /\ UNCHANGED <<disk, cli, cfg, registry, call>>

\* provider_from_config(OpenWeather, cfg)?.get_weather(request), up to its
\* first await or early return
OwGetWeather(when) ==
    /\ call.pc = "idle"
    /\ LET r == provider_from_config("OpenWeather", cfg)
       IN  /\ r.ok
           /\ call' = ow_get_weather(Unwrap(r.adapter),
                                     WeatherRequest(Address, when), now)
    /\ UNCHANGED <<disk, cli, cfg, registry, now>>

\* provider_from_config(WeatherApi, cfg)?.get_weather(request), up to its await
WaGetWeather(when) ==
    /\ call.pc = "idle"
    /\ LET r == provider_from_config("WeatherApi", cfg)
       IN  /\ r.ok
           /\ call' = wa_get_weather(Unwrap(r.adapter),
                                     WeatherRequest(Address, when), now)
    /\ UNCHANGED <<disk, cli, cfg, registry, now>>

Received(c, resp) == [c EXCEPT !.resp = Some(resp)]

\* fetch_current resumes with the transport's answer
OwCurrentResponse(resp) ==
    /\ call.pc = "waiting" /\ call.sent[1].url = OW_CURRENT_URL
    /\ call' = ow_fetch_current(Received(call, resp), resp, now)
    /\ UNCHANGED <<disk, cli, cfg, registry, now>>

\* fetch_forecast resumes with the transport's answer
OwForecastResponse(resp, overflow_checks) ==
    /\ call.pc = "waiting" /\ call.sent[1].url = OW_FORECAST_URL
    /\ call' = ow_fetch_forecast(Received(call, resp), resp, now, overflow_checks)
    /\ UNCHANGED <<disk, cli, cfg, registry, now>>

\* the current branch of WeatherApi resumes
WaCurrentResponse(resp) ==
    /\ call.pc = "waiting" /\ call.sent[1].url = WA_CURRENT_URL
    /\ call' = wa_current(Received(call, resp), resp, now)
    /\ UNCHANGED <<disk, cli, cfg, registry, now>>

\* the forecast / history branch of WeatherApi resumes
WaForecastResponse(resp, overflow_checks) ==
    /\ call.pc = "waiting"
    /\ call.sent[1].url \in {WA_FORECAST_URL, WA_HISTORY_URL}
    /\ call' = wa_forecast_history(Received(call, resp), resp, now, overflow_checks)
    /\ UNCHANGED <<disk, cli, cfg, registry, now>>

\* The caller takes the result (run_show prints it or reports the error, a
\* panic ends the process); the next call starts afresh.
CallIsOver ==
    /\ call.pc = "done"
    /\ call' = IdleCall
    /\ UNCHANGED <<disk, cli, cfg, registry, now>>

Next ==
    \/ Tick
    \/ CallIsOver
    \/ \E when \in Whens : OwGetWeather(when)
    \/ \E when \in Whens : WaGetWeather(when)
    \/ \E resp \in Responses(OwCurrentPayloads) : OwCurrentResponse(resp)
    \/ \E resp \in Responses(OwForecastPayloads), oc \in BOOLEAN :
          OwForecastResponse(resp, oc)
    \/ \E resp \in Responses(WaCurrentPayloads) : WaCurrentResponse(resp)
    \/ \E resp \in Responses(WaForecastPayloads), oc \in BOOLEAN :
          WaForecastResponse(resp, oc)

Spec == Init /\ [][Next]_vars

\* ---- the registry and the configuration store on their own
InitRegistry ==
    /\ cfg = ConfigDefault
    /\ registry = NoRegistryCall
    /\ now = 0
    /\ call = IdleCall
    /\ disk = None
    /\ cli = NoCommand

\* config.toml files written by hand: a [providers.x] table without
\* default_provider, and a default_provider in mixed case.
StrOpenWeatherMixed == <<"O", "p", "e", "n", "W", "e", "a", "t", "h", "e", "r">>
ConfigFiles ==
    {[default_provider |-> None,
      providers |-> MapInsert(<<>>, as_str(id), [api_key |-> "KEY1"])] :
        id \in ProviderId}
    \cup {[default_provider |-> Some(StrOpenWeatherMixed),
           providers |-> MapInsert(<<>>, StrOpenweather, [api_key |-> "KEY1"])]}

\* cfg.upsert_provider_api_key(id, key)
UpsertProviderApiKey(id, key) ==
    /\ cfg' = upsert_provider_api_key(cfg, id, key)
    /\ registry' = [op |-> "upsert_provider_api_key", id |-> Some(id),
                    api_key |-> key, cfg |-> Some(cfg), result |-> None]
    /\ UNCHANGED <<disk, cli, now, call>>

\* cfg.set_default_provider(id)
SetDefaultProvider(id) ==
    /\ cfg' = set_default_provider(cfg, id)
    /\ registry' = [op |-> "set_default_provider", id |-> Some(id),
                    cfg |-> Some(cfg), result |-> None]
    /\ UNCHANGED <<disk, cli, now, call>>

\* provider_from_config(id, &cfg)
ProviderFromConfig(id) ==
    /\ registry' = [op |-> "provider_from_config", id |-> Some(id),
                    cfg |-> Some(cfg),
                    result |-> Some(provider_from_config(id, cfg))]
    /\ UNCHANGED <<disk, cli, cfg, now, call>>

\* default_provider_from_config(&cfg)
DefaultProviderFromConfig ==
    /\ registry' = [op |-> "default_provider_from_config", id |-> None,
                    cfg |-> Some(cfg),
                    result |-> Some(default_provider_from_config(cfg))]
    /\ UNCHANGED <<disk, cli, cfg, now, call>>

\* Config::load(): the configuration a config.toml on disk holds
LoadConfig(file) ==
    /\ cfg' = file
    /\ registry' = [op |-> "load", id |-> None, cfg |-> None, result |-> None]
    /\ UNCHANGED <<disk, cli, now, call>>

NextRegistry ==
    \/ \E file \in ConfigFiles : LoadConfig(file)
    \/ \E id \in ProviderId, key \in ApiKeys : UpsertProviderApiKey(id, key)
    \/ \E id \in ProviderId : SetDefaultProvider(id)
    \/ \E id \in ProviderId : ProviderFromConfig(id)
    \/ DefaultProviderFromConfig

SpecRegistry == InitRegistry /\ [][NextRegistry]_vars

\* ---- the adapters on payloads that differ in their wind
\* A current payload or a forecast entry of OpenWeather with wind.speed set.
OwWithWind(j, speed) == [j EXCEPT !.wind = Some([speed |-> speed])]
\* A current object or an hour of WeatherApi with wind_kph set.
WaWithWindKph(h, wind_kph) == [h EXCEPT !.wind_kph = wind_kph]

\* wind.speed in m/s: calm, 3.5, 10 and 36; None for a missing key.
SpeedSamples == {None, Some(Rat(0, 1)), Some(Rat(7, 2)), Some(Rat(10, 1)),
                 Some(Rat(36, 1))}
\* wind_kph: calm, 1, 9, 36 and 100 km/h; None for a missing key.
KphSamples == {None, Some(0), Some(1), Some(9), Some(36), Some(100)}

OwWindCurrentPayloads ==
    {OwWithWind(OwCurrentJson(Some(1), Some(80), BaseWeather), sp) :
        sp \in SpeedSamples}

OwWindEntries ==
    {OwWithWind(OwEntryJson(Some(d), Some(80), BaseWeather), sp) :
        d \in {0, 3}, sp \in {Some(Rat(7, 2)), Some(Rat(10, 1))}}
    \cup {OwWithWind(OwEntryJson(Some(1), Some(80), BaseWeather), None)}

OwWindForecastPayloads ==
    {OwForecastJson(Some(l)) : l \in SeqsUpTo(OwWindEntries, MaxList)}

WaWindCurrentPayloads ==
    {[j EXCEPT !.current = Some(WaWithWindKph(Unwrap(j.current), kph))] :
        j \in {WaCurrentJson(None, Some(1), Some(80), WaBaseCondition)},
        kph \in KphSamples}

WaWindHours ==
    {WaWithWindKph(WaHourJson(Some(d), Some(80), WaBaseCondition), kph) :
        d \in {0, 3}, kph \in {Some(9), Some(36)}}
    \cup {WaWithWindKph(WaBaseHour, kph) : kph \in {None, Some(100)}}

WaWindForecastPayloads ==
    {WaForecastJson(Some(<<WaDayJson(Some(hs))>>)) :
        hs \in SeqsUpTo(WaWindHours, MaxList)}

NextWind ==
    \/ Tick
    \/ CallIsOver
    \/ \E when \in Whens : OwGetWeather(when)
    \/ \E when \in Whens : WaGetWeather(when)
    \/ \E resp \in Responses(OwWindCurrentPayloads) : OwCurrentResponse(resp)
    \/ \E resp \in Responses(OwWindForecastPayloads), oc \in BOOLEAN :
          OwForecastResponse(resp, oc)
    \/ \E resp \in Responses(WaWindCurrentPayloads) : WaCurrentResponse(resp)
    \/ \E resp \in Responses(WaWindForecastPayloads), oc \in BOOLEAN :
          WaForecastResponse(resp, oc)

SpecWind == Init /\ [][NextWind]_vars

\* ---- the adapters on answers that differ in status and body
\* Bodies in two-byte characters: 100 of them (200 bytes), 150 (300 bytes),
\* and 250 one-byte characters.
LongBodies ==
    {Str("U+00E9", MAX \div 2), Str("U+00E9", MAX - 50), Str("x", MAX + 50)}

StatusResponses ==
    {[kind |-> "http", status |-> st, text |-> b] :
        st \in {401, 404, 500, 503}, b \in ErrorBodies \cup LongBodies}

NextStatus ==
    \/ Tick
    \/ CallIsOver
    \/ \E when \in Whens : OwGetWeather(when)
    \/ \E when \in Whens : WaGetWeather(when)
    \/ \E resp \in StatusResponses : OwCurrentResponse(resp)
    \/ \E resp \in StatusResponses, oc \in BOOLEAN : OwForecastResponse(resp, oc)
    \/ \E resp \in StatusResponses : WaCurrentResponse(resp)
    \/ \E resp \in StatusResponses, oc \in BOOLEAN : WaForecastResponse(resp, oc)

SpecStatus == Init /\ [][NextStatus]_vars

\* ---- the CLI commands that write config.toml
\* A command's end: the file it leaves and Ok(()) or the error it returns.
Failed(file, e) == [disk |-> file, ok |-> FALSE, err |-> Some(e)]
Done(file) == [disk |-> file, ok |-> TRUE, err |-> None]

\* run_configure: prompt is the key typed at the prompt, None when the
\* prompt was cancelled; write_ok tells whether config.toml could be written.
run_configure(file, provider, prompt, write_ok) ==
    LET parsed == try_from(provider)
        loaded == load(file)
    IN  IF ~parsed.ok THEN Failed(file, parsed.err)
        ELSE IF IsNone(prompt) THEN Failed(file, [kind |-> "Prompt"])
        ELSE IF ~loaded.ok THEN Failed(file, loaded.err)
        ELSE IF ~write_ok THEN Failed(file, [kind |-> "WriteConfig"])
        ELSE Done(save(upsert_provider_api_key(loaded.cfg, parsed.id,
                                               Unwrap(prompt))))

\* A `provider use` that does not ask whether the provider has a key.
run_provider_use_unchecked(file, provider, write_ok) ==
    LET parsed == try_from(provider)
        loaded == load(file)
    IN  IF ~parsed.ok THEN Failed(file, parsed.err)
        ELSE IF ~loaded.ok THEN Failed(file, loaded.err)
        ELSE IF ~write_ok THEN Failed(file, [kind |-> "WriteConfig"])
        ELSE Done(save(set_default_provider(loaded.cfg, parsed.id)))

\* run_provider_use
run_provider_use(file, provider, write_ok) ==
    LET parsed == try_from(provider)
        loaded == load(file)
    IN  IF ~parsed.ok THEN Failed(file, parsed.err)
        ELSE IF ~loaded.ok THEN Failed(file, loaded.err)
        ELSE IF ~is_provider_configured(loaded.cfg, parsed.id)
        THEN Failed(file, [kind |-> "NotConfigured", id |-> parsed.id])
        ELSE IF ~write_ok THEN Failed(file, [kind |-> "WriteConfig"])
        ELSE Done(save(set_default_provider(loaded.cfg, parsed.id)))

\* PROVIDER arguments typed at the command line: the two names, each also
\* in another case, and a word that names no provider.
CliArgs ==
    {StrOpenweather, StrWeatherapi, StrOpenWeatherMixed,
     <<"W", "E", "A", "T", "H", "E", "R", "A", "P", "I">>,
     <<"d", "o", "e", "s", "n", "o", "t", "e", "x", "i", "s", "t">>}

\* What the prompt returns: a key, the empty line, or None when cancelled.
Prompts == {None, Some("")} \cup {Some(k) : k \in ApiKeys}

\* The first run: no config.toml yet.
InitCli ==
    /\ cfg = ConfigDefault
    /\ registry = NoRegistryCall
    /\ now = 0
    /\ call = IdleCall
    /\ disk = None
    /\ cli = NoCommand

\* weather configure <provider>
RunConfigure(provider, prompt, write_ok) ==
    LET r == run_configure(disk, provider, prompt, write_ok)
    IN  /\ disk' = r.disk
        /\ cli' = [op |-> "configure", arg |-> provider, before |-> disk,
                   ok |-> r.ok, err |-> r.err]
        /\ UNCHANGED <<cfg, registry, now, call>>

\* weather provider use <provider>
RunProviderUse(provider, write_ok) ==
    LET r == run_provider_use(disk, provider, write_ok)
    IN  /\ disk' = r.disk
        /\ cli' = [op |-> "provider use", arg |-> provider, before |-> disk,
                   ok |-> r.ok, err |-> r.err]
        /\ UNCHANGED <<cfg, registry, now, call>>

NextCli ==
    \/ \E provider \in CliArgs, prompt \in Prompts, write_ok \in BOOLEAN :
          RunConfigure(provider, prompt, write_ok)
    \/ \E provider \in CliArgs, write_ok \in BOOLEAN :
          RunProviderUse(provider, write_ok)

SpecCli == InitCli /\ [][NextCli]_vars

\* ---- ProviderId::try_from on its own
\* char::to_ascii_uppercase
to_ascii_uppercase(c) ==
    CASE c = "a" -> "A" [] c = "e" -> "E" [] c = "h" -> "H" [] c = "i" -> "I"
      [] c = "n" -> "N" [] c = "o" -> "O" [] c = "p" -> "P" [] c = "r" -> "R"
      [] c = "t" -> "T" [] c = "w" -> "W" [] OTHER -> c

\* Every way of typing s in upper and lower case.
CaseVariants(s) ==
    {[i \in 1..Len(s) |-> IF up[i] THEN to_ascii_uppercase(s[i]) ELSE s[i]] :
        up \in [1..Len(s) -> BOOLEAN]}

\* Arguments that spell no provider: the empty string, another word, a
\* provider name cut short, extended, padded, hyphenated, doubled, and one
\* whose last letter is U+0130.
OtherArgs ==
    {<<>>,
     <<"d", "o", "e", "s", "n", "o", "t", "e", "x", "i", "s", "t">>,
     SubSeq(StrOpenweather, 1, Len(StrOpenweather) - 1),
     StrOpenweather \o <<"r">>,
     <<" ">> \o StrOpenweather,
     StrWeatherapi \o <<" ">>,
     <<"o", "p", "e", "n", "-", "w", "e", "a", "t", "h", "e", "r">>,
     StrWeatherapi \o StrWeatherapi,
     SubSeq(StrWeatherapi, 1, Len(StrWeatherapi) - 1) \o <<"U+0130">>,
     <<"W", "E", "A", "T", "H", "E", "R", "_", "A", "P", "I">>}

\* The strings a PROVIDER argument may be.
ProviderArgs ==
    UNION {CaseVariants(as_str(id)) : id \in ProviderId} \cup OtherArgs

InitTryFrom ==
    /\ cfg = ConfigDefault
    /\ registry = NoRegistryCall
    /\ now = 0
    /\ call = IdleCall
    /\ disk = None
    /\ \E value \in ProviderArgs :
          cli = [op |-> "try_from", arg |-> value, result |-> None]

\* ProviderId::try_from(value)
TryFrom ==
    /\ cli.op = "try_from" /\ IsNone(cli.result)
    /\ cli' = [cli EXCEPT !.result = Some(try_from(cli.arg))]
    /\ UNCHANGED <<cfg, registry, now, call, disk>>

NextTryFrom == TryFrom

SpecTryFrom == InitTryFrom /\ [][NextTryFrom]_vars

\* ================================================================ claims
\* What the claims read off a call.
CallOf(id) == call.pc # "idle" /\ call.id = Some(id)
Asked(url) == Len(call.sent) = 1 /\ call.sent[1].url = url
Answered2xx ==
    /\ call.pc = "done" /\ IsSome(call.resp)
    /\ Unwrap(call.resp).kind = "http" /\ is_success(Unwrap(call.resp).status)
AnsweredJson == Answered2xx /\ IsJson(Unwrap(call.resp).json)
Json == Unwrap(call.resp).json
ReturnedOk == call.pc = "done" /\ call.outcome = "ok"
ReturnedErr(kind) ==
    call.pc = "done" /\ call.outcome = "err" /\ Unwrap(call.err).kind = kind
Horizon == ForecastDays * TicksPerDay

\* ---- C1
\* C1 as claimed: the WeatherApi adapter asks the current endpoint for
\* when = None, the forecast endpoint for every when = Some(t) with t >= now,
\* and the history endpoint for every when = Some(t) with t < now.
C1_EndpointByInstant ==
    (CallOf("WeatherApi") /\ Len(call.sent) = 1) =>
        /\ IsNone(call.when) => Asked(WA_CURRENT_URL)
        /\ (IsSome(call.when) /\ Unwrap(call.when) >= Unwrap(call.now))
               => Asked(WA_FORECAST_URL)
        /\ (IsSome(call.when) /\ Unwrap(call.when) < Unwrap(call.now))
               => Asked(WA_HISTORY_URL)

\* C1 amended: the WeatherApi adapter sends exactly one request, chosen by
\* UTC calendar day: the current endpoint for when = None and for every
\* when = Some(t) on the day of call-time now, the forecast endpoint for t on
\* a later day, the history endpoint for t on an earlier day.
C1_EndpointByDay ==
    CallOf("WeatherApi") =>
        /\ Len(call.sent) = 1
        /\ IsNone(call.when) => Asked(WA_CURRENT_URL)
        /\ IsSome(call.when) =>
              LET day == Unwrap(call.when) \div TicksPerDay
                  today == Unwrap(call.now) \div TicksPerDay
              IN  /\ day = today => Asked(WA_CURRENT_URL)
                  /\ day > today => Asked(WA_FORECAST_URL)
                  /\ day < today => Asked(WA_HISTORY_URL)

\* A requested instant later than now, on the same day, asks current.
C1_LaterTodayAsksCurrent ==
    /\ CallOf("WeatherApi") /\ IsSome(call.when)
    /\ Unwrap(call.when) > Unwrap(call.now)
    /\ Asked(WA_CURRENT_URL)

\* ---- C2
\* C2: for when = Some(t), t >= now, the OpenWeather adapter returns the
\* forecast-limit error without a request if t > now + 5 days, and sends the
\* forecast request if t <= now + 5 days.
C2_ForecastHorizon ==
    (CallOf("OpenWeather") /\ IsSome(call.when)
        /\ Unwrap(call.when) >= Unwrap(call.now)) =>
        LET t == Unwrap(call.when)
            limit == Unwrap(call.now) + Horizon
        IN  /\ t > limit => (ReturnedErr("ForecastLimit") /\ call.sent = <<>>)
            /\ t <= limit => Asked(OW_FORECAST_URL)

\* Both sides of the horizon happen: a request for exactly now + 5 days was
\* sent to the forecast endpoint.
C2_AtHorizonAsksForecast ==
    /\ CallOf("OpenWeather") /\ IsSome(call.when)
    /\ Unwrap(call.when) = Unwrap(call.now) + Horizon
    /\ Asked(OW_FORECAST_URL)

\* ---- C3
\* C3: for when = Some(t), t < now, the OpenWeather adapter returns the
\* historical-weather error naming t and sends no request.
C3_PastIsRefused ==
    (CallOf("OpenWeather") /\ IsSome(call.when)
        /\ Unwrap(call.when) < Unwrap(call.now)) =>
        /\ ReturnedErr("Historical")
        /\ Unwrap(call.err).dt = Unwrap(call.when)
        /\ call.sent = <<>>

\* A request for the tick before now was refused.
C3_JustPastRefused ==
    /\ CallOf("OpenWeather") /\ IsSome(call.when)
    /\ Unwrap(call.when) = Unwrap(call.now) - 1
    /\ call.outcome = "err"

\* ---- C4
\* The timestamps the selection ran over and its target.
SelectionRan ==
    /\ AnsweredJson
    /\ \/ Asked(OW_FORECAST_URL) /\ DecodesOwForecast(Json)
       \/ /\ (Asked(WA_FORECAST_URL) \/ Asked(WA_HISTORY_URL))
          /\ DecodesWaForecast(Json)
          /\ Len(Unwrap(Unwrap(Json.forecast).forecastday)) > 0
SelectionList ==
    IF call.id = Some("OpenWeather")
    THEN [i \in DOMAIN Unwrap(Json.list) |-> Unwrap(Unwrap(Json.list)[i].dt)]
    ELSE LET hours == Unwrap(Unwrap(Unwrap(Json.forecast).forecastday)[1].hour)
         IN  [i \in DOMAIN hours |-> Unwrap(hours[i].time_epoch)]
Distance(a, b) == IF a >= b THEN a - b ELSE b - a

\* C4: whenever an entry is selected from a non-empty list, no entry of the
\* list is nearer to the target timestamp than it, and every entry before it
\* is farther.
C4_NearestSelected ==
    (SelectionRan /\ IsSome(call.selected)) =>
        LET dts == SelectionList
            target == Unwrap(call.when)
            i == Unwrap(call.selected)
        IN  /\ \A j \in DOMAIN dts :
                   Distance(dts[i], target) <= Distance(dts[j], target)
            /\ \A j \in 1..(i - 1) :
                   Distance(dts[i], target) < Distance(dts[j], target)

\* ---- C5
\* C5: classify_date(now, None) = Current; classify_date(now, Some(t)) is
\* Past(t) for t < now and Future(t) for t >= now, t = now included.
C5_ClassifyDate ==
    CallOf("OpenWeather") =>
        /\ IsSome(call.date_req)
        /\ IsNone(call.when) => Unwrap(call.date_req) = [tag |-> "Current"]
        /\ IsSome(call.when) =>
              LET t == Unwrap(call.when)
              IN  /\ t < Unwrap(call.now)
                        => Unwrap(call.date_req) = [tag |-> "Past", dt |-> t]
                  /\ t >= Unwrap(call.now)
                        => Unwrap(call.date_req) = [tag |-> "Future", dt |-> t]

\* The boundary: a request for exactly now was classified Future.
C5_NowIsFuture ==
    /\ CallOf("OpenWeather") /\ call.when = call.now
    /\ Unwrap(call.date_req).tag = "Future"

\* ---- C6
HasKey(c, id) == as_str(id) \in DOMAIN c.providers

\* C6: provider_from_config(id, config) fails with the missing-key error when
\* config holds no key for id and returns the adapter holding the stored key
\* when it does; either way it sends no HTTP request.
C6_MissingKeyBeforeNetwork ==
    registry.op = "provider_from_config" =>
        LET r == Unwrap(registry.result)
            c == Unwrap(registry.cfg)
            id == Unwrap(registry.id)
        IN  /\ "http_get" \notin {r.steps[i] : i \in DOMAIN r.steps}
            /\ ~HasKey(c, id) =>
                  (~r.ok /\ IsNone(r.adapter)
                         /\ r.err = [kind |-> "MissingApiKey", id |-> id])
            /\ HasKey(c, id) =>
                  /\ r.ok
                  /\ r.adapter =
                        Some([id |-> id, api_key |-> c.providers[as_str(id)].api_key])

\* A provider without a key was asked for while the other one had a key.
C6_MissingKeyRefused ==
    /\ registry.op = "provider_from_config"
    /\ ~Unwrap(registry.result).ok
    /\ Unwrap(registry.cfg).providers # <<>>

\* ---- C7
\* C7: default_provider_from_config fails with the no-default error, before
\* any API-key lookup, whenever the config has no default provider; with a
\* default set whose provider has a key it returns that provider's adapter.
C7_NoDefaultBeforeKeyLookup ==
    registry.op = "default_provider_from_config" =>
        LET r == Unwrap(registry.result)
            c == Unwrap(registry.cfg)
        IN  /\ IsNone(c.default_provider) =>
                  /\ ~r.ok
                  /\ r.err = [kind |-> "NoDefaultProvider"]
                  /\ "provider_api_key" \notin {r.steps[i] : i \in DOMAIN r.steps}
            /\ \A id \in ProviderId :
                  (c.default_provider = Some(as_str(id)) /\ HasKey(c, id)) =>
                      (r.ok /\ Unwrap(r.adapter).id = id)

\* The default adapter was asked for from the empty configuration.
C7_NoDefaultNoKeys ==
    /\ registry.op = "default_provider_from_config"
    /\ Unwrap(registry.cfg) = ConfigDefault
    /\ ~Unwrap(registry.result).ok

\* ---- C8
\* C8: a call sends at most one request, and it ends with an observation or
\* with an error: with an error whenever the transport failed, the status was
\* not 2xx or the payload did not decode.
C8_OneRequestOneResult ==
    /\ Len(call.sent) <= 1
    /\ call.pc = "done" =>
          /\ call.outcome \in {"ok", "err"}
          /\ (IsSome(call.resp) /\ ~Answered2xx) => call.outcome = "err"

\* ---- C9
\* C9: every observation returned has humidity_pct within 0..100.
C9_HumidityIsPercent ==
    ReturnedOk => Unwrap(call.obs).humidity_pct \in 0..100

\* ---- C10
\* The description a payload carries for an entry: OpenWeather's weather
\* list, WeatherApi's condition object.
OwLacksDescription(w) ==
    IsNone(w) \/ Len(Unwrap(w)) = 0 \/ IsNone(Unwrap(w)[1].description)
WaLacksDescription(c) == IsNone(c) \/ IsNone(Unwrap(c).text)
OwMalformedDescription(w) ==
    IsNone(w) \/ \E i \in DOMAIN Unwrap(w) : IsNone(Unwrap(w)[i].description)

\* The payload with a description supplied wherever one is missing.
OwSupply(w) ==
    IF IsNone(w) THEN BaseWeather
    ELSE Some([i \in DOMAIN Unwrap(w) |->
                 IF IsNone(Unwrap(w)[i].description)
                 THEN OwWeatherJson(Some("clear sky")) ELSE Unwrap(w)[i]])
WaSupply(c) == IF WaLacksDescription(c) THEN WaBaseCondition ELSE c
WaSupplyDay(d) ==
    IF IsNone(d.hour) THEN d
    ELSE [hour |-> Some([i \in DOMAIN Unwrap(d.hour) |->
                           [Unwrap(d.hour)[i] EXCEPT !.condition = WaSupply(@)]])]
Supplied(j) ==
    CASE Asked(OW_CURRENT_URL) -> [j EXCEPT !.weather = OwSupply(@)]
      [] Asked(OW_FORECAST_URL) ->
           IF IsNone(j.list) THEN j
           ELSE [j EXCEPT !.list =
                    Some([i \in DOMAIN Unwrap(j.list) |->
                            [Unwrap(j.list)[i] EXCEPT !.weather = OwSupply(@)]])]
      [] Asked(WA_CURRENT_URL) ->
           IF IsNone(j.current) THEN j
           ELSE [j EXCEPT !.current =
                    Some([Unwrap(j.current) EXCEPT !.condition = WaSupply(@)])]
      [] OTHER ->
           IF IsNone(j.forecast) \/ IsNone(Unwrap(j.forecast).forecastday) THEN j
           ELSE LET days == Unwrap(Unwrap(j.forecast).forecastday)
                IN  [j EXCEPT !.forecast =
                        Some([forecastday |->
                                Some([i \in DOMAIN days |-> WaSupplyDay(days[i])])])]
DecodesAsked(j) ==
    CASE Asked(OW_CURRENT_URL) -> DecodesOwCurrent(j)
      [] Asked(OW_FORECAST_URL) -> DecodesOwForecast(j)
      [] Asked(WA_CURRENT_URL) -> DecodesWaResponse(j)
      [] OTHER -> DecodesWaForecast(j)

\* The description of the entry an observation was built from.
ObservedOwWeather ==
    IF Asked(OW_CURRENT_URL) THEN Json.weather
    ELSE Unwrap(Json.list)[Unwrap(call.selected)].weather
ObservedWaCondition ==
    IF Asked(WA_CURRENT_URL) THEN Unwrap(Json.current).condition
    ELSE Unwrap(Unwrap(Unwrap(Json.forecast).forecastday)[1].hour)
             [Unwrap(call.selected)].condition

\* C10 as claimed: on every path of both adapters the condition is the first
\* upstream description, and "Unknown" when the payload carries none; a
\* payload that lacks only descriptions still yields an observation.
C10_UnknownWhenAbsent ==
    AnsweredJson =>
        /\ DecodesAsked(Supplied(Json)) => ~ReturnedErr("Decode")
        /\ (ReturnedOk /\ call.id = Some("OpenWeather")) =>
              Unwrap(call.obs).condition =
                  IF OwLacksDescription(ObservedOwWeather) THEN "Unknown"
                  ELSE Unwrap(Unwrap(ObservedOwWeather)[1].description)
        /\ (ReturnedOk /\ call.id = Some("WeatherApi")) =>
              Unwrap(call.obs).condition =
                  IF WaLacksDescription(ObservedWaCondition) THEN "Unknown"
                  ELSE Unwrap(Unwrap(ObservedWaCondition).text)

\* Whether some description field the schema requires is missing.
RequiredDescriptionMissing ==
    CASE Asked(OW_CURRENT_URL) -> OwMalformedDescription(Json.weather)
      [] Asked(OW_FORECAST_URL) ->
           /\ IsSome(Json.list)
           /\ \E i \in DOMAIN Unwrap(Json.list) :
                 OwMalformedDescription(Unwrap(Json.list)[i].weather)
      [] Asked(WA_CURRENT_URL) ->
           IsSome(Json.current) /\ WaLacksDescription(Unwrap(Json.current).condition)
      [] OTHER ->
           /\ IsSome(Json.forecast) /\ IsSome(Unwrap(Json.forecast).forecastday)
           /\ \E d \in DOMAIN Unwrap(Unwrap(Json.forecast).forecastday) :
                 LET day == Unwrap(Unwrap(Json.forecast).forecastday)[d]
                 IN  /\ IsSome(day.hour)
                     /\ \E h \in DOMAIN Unwrap(day.hour) :
                           WaLacksDescription(Unwrap(day.hour)[h].condition)

\* C10 amended: OpenWeather (current, forecast) sets the condition to the
\* description of the first element of the entry's weather list, and to
\* "Unknown" when that list is empty; WeatherApi (current, forecast, history)
\* sets it to the entry's condition.text.  A payload in which the weather
\* key, a weather element's description, the condition or its text is
\* missing does not decode, and the call returns the decode error.
C10_FirstDescriptionOrUnknown ==
    AnsweredJson =>
        /\ RequiredDescriptionMissing => ReturnedErr("Decode")
        /\ (ReturnedOk /\ call.id = Some("OpenWeather")) =>
              Unwrap(call.obs).condition =
                  IF Len(Unwrap(ObservedOwWeather)) = 0 THEN "Unknown"
                  ELSE Unwrap(Unwrap(ObservedOwWeather)[1].description)
        /\ (ReturnedOk /\ call.id = Some("WeatherApi")) =>
              Unwrap(call.obs).condition = Unwrap(Unwrap(ObservedWaCondition).text)

\* An OpenWeather forecast entry with an empty weather list was observed as
\* "Unknown".
C10_EmptyListIsUnknown ==
    /\ ReturnedOk /\ Asked(OW_FORECAST_URL)
    /\ Unwrap(ObservedOwWeather) = <<>>
    /\ Unwrap(call.obs).condition = "Unknown"


\* ---------------------------------------------------------------- C11
\* The provider the argument spells in some mix of upper and lower case.
Spelled(value) == {id \in ProviderId : value \in CaseVariants(as_str(id))}

Parsed == cli.op = "try_from" /\ IsSome(cli.result)

\* C11: ProviderId::try_from answers every string; an upper/lower-case
\* variant of as_str(id) parses to Ok(id), for each id of ProviderId::all(),
\* so try_from(as_str(id)) = id; every other string gets the error that
\* names all the supported identifiers.
C11_TryFromInvertsAsStr ==
    Parsed =>
        LET r == Unwrap(cli.result)
        IN  /\ \A id \in Spelled(cli.arg) : r.ok /\ r.id = id
            /\ Spelled(cli.arg) = {} =>
                  /\ ~r.ok
                  /\ r.err.supported =
                        {as_str(ProviderIdAll[i]) : i \in DOMAIN ProviderIdAll}
            /\ \A id \in ProviderId : cli.arg = as_str(id) => r.ok /\ r.id = id

\* WeatherAPI typed in mixed case has been parsed.
C11_MixedCaseParsed ==
    /\ Parsed
    /\ cli.arg = <<"W", "e", "a", "t", "h", "e", "r", "A", "P", "I">>
    /\ Unwrap(cli.result).ok /\ Unwrap(cli.result).id = "WeatherApi"

\* ---------------------------------------------------------------- C12
Before == Unwrap(registry.cfg)
Upserted == registry.op = "upsert_provider_api_key"
OtherKeysKept ==
    \A k \in (DOMAIN Before.providers) \ {as_str(Unwrap(registry.id))} :
        k \in DOMAIN cfg.providers /\ cfg.providers[k] = Before.providers[k]

\* C12: after upsert_provider_api_key(p, k) on any configuration,
\* provider_api_key(p) = k and p is configured; p is made the default when
\* no default was set, a default that was set stays as it was, and no other
\* provider's key changes. Of the operations on a configuration only
\* set_default_provider(q) replaces a default that was set, and after it
\* default_provider_id() = q.
C12_UpsertFrame ==
    /\ Upserted =>
          LET p == Unwrap(registry.id)
          IN  /\ provider_api_key(cfg, p) = Some(registry.api_key)
              /\ is_provider_configured(cfg, p)
              /\ IsNone(Before.default_provider) =>
                    /\ default_provider_id(cfg).ok
                    /\ default_provider_id(cfg).id = p
              /\ IsSome(Before.default_provider) =>
                    cfg.default_provider = Before.default_provider
              /\ OtherKeysKept
              /\ DOMAIN cfg.providers = DOMAIN Before.providers \cup {as_str(p)}
    /\ registry.op = "set_default_provider" =>
          /\ default_provider_id(cfg).ok
          /\ default_provider_id(cfg).id = Unwrap(registry.id)
          /\ cfg.providers = Before.providers
    /\ registry.op \in {"provider_from_config", "default_provider_from_config"}
          => cfg = Before

\* A second provider's key was stored while the first was the default, and
\* the first is the default still.
C12_SecondKeyKeepsDefault ==
    /\ Upserted
    /\ Unwrap(registry.id) = "WeatherApi"
    /\ Before.default_provider = Some(StrOpenweather)
    /\ is_provider_configured(Before, "OpenWeather")
    /\ cfg.default_provider = Some(StrOpenweather)
    /\ provider_api_key(cfg, "WeatherApi") = Some(registry.api_key)

\* ---------------------------------------------------------------- C13
\* The payload entry an observation was built from.
SourceEntry ==
    IF Asked(OW_CURRENT_URL) THEN Json
    ELSE IF Asked(OW_FORECAST_URL)
    THEN Unwrap(Json.list)[Unwrap(call.selected)]
    ELSE IF Asked(WA_CURRENT_URL) THEN Unwrap(Json.current)
    ELSE Unwrap(Unwrap(Unwrap(Json.forecast).forecastday)[1].hour)[
             Unwrap(call.selected)]

\* mps, a fraction <<n, d>>, is kph / 3.6.
IsKphOver3_6(mps, kph) == mps[1] * 36 = kph * 10 * mps[2]

\* C13: a WeatherApi observation, on the current, forecast and history
\* paths, has wind_speed_mps = wind_kph / 3.6 of the entry it was built
\* from, 36 km/h giving exactly 10 m/s; an OpenWeather observation, current
\* or forecast, has the entry's wind.speed as it came.
C13_WindInMps ==
    ReturnedOk =>
        LET mps == Unwrap(call.obs).wind_speed_mps
        IN  IF CallOf("WeatherApi")
            THEN LET kph == Unwrap(SourceEntry.wind_kph)
                 IN  /\ IsKphOver3_6(mps, kph)
                     /\ kph = 36 => mps = <<10, 1>>
            ELSE mps = Unwrap(Unwrap(SourceEntry.wind).speed)

\* A history observation built from an hour that reports 36 km/h.
C13_HistoryAt36Kph ==
    /\ ReturnedOk /\ Asked(WA_HISTORY_URL)
    /\ SourceEntry.wind_kph = Some(36)
    /\ Unwrap(call.obs).wind_speed_mps = <<10, 1>>

\* ---------------------------------------------------------------- C14
\* A text's length in characters, its first k characters, and the text with
\* neighbouring runs of one character joined.
RECURSIVE CharLen(_)
CharLen(s) == IF Len(s) = 0 THEN 0 ELSE Head(s).n + CharLen(Tail(s))

RECURSIVE CharTake(_, _)
CharTake(s, k) ==
    IF k = 0 \/ Len(s) = 0 THEN <<>>
    ELSE IF k >= Head(s).n THEN <<Head(s)>> \o CharTake(Tail(s), k - Head(s).n)
    ELSE Str(Head(s).c, k)

RECURSIVE Canon(_)
Canon(s) ==
    IF Len(s) <= 1 THEN s
    ELSE LET rest == Canon(Tail(s))
         IN  IF Head(s).c = Head(rest).c
             THEN <<[c |-> Head(s).c, n |-> Head(s).n + Head(rest).n]>>
                      \o Tail(rest)
             ELSE <<Head(s)>> \o rest

AnsweredNon2xx ==
    /\ call.pc = "done" /\ IsSome(call.resp)
    /\ Unwrap(call.resp).kind = "http" /\ ~is_success(Unwrap(call.resp).status)

\* C14: a call answered with a non-2xx status returns the status error,
\* which carries the status and an excerpt of the body; the body text in the
\* excerpt is the first 200 characters of the body, the whole body when it
\* has at most 200 characters (a mark of truncation may follow it).
C14_StatusErrorExcerpt ==
    AnsweredNon2xx =>
        /\ ReturnedErr("Status")
        /\ Unwrap(call.err).status = Unwrap(call.resp).status
        /\ LET body == Unwrap(call.resp).text
               taken == CharTake(body, MAX)
           IN  /\ CharLen(taken) <= MAX
               /\ CharLen(body) <= MAX => taken = body
               /\ Canon(Unwrap(call.err).excerpt)
                      \in {Canon(taken), Canon(taken \o Ellipsis)}

\* ---------------------------------------------------------------- C15
OwForecastDecoded ==
    AnsweredJson /\ Asked(OW_FORECAST_URL) /\ DecodesOwForecast(Json)
WaForecastDecoded ==
    /\ AnsweredJson /\ (Asked(WA_FORECAST_URL) \/ Asked(WA_HISTORY_URL))
    /\ DecodesWaForecast(Json)
NoObservation == call.outcome # "ok" /\ IsNone(call.obs)

\* C15: a 2xx answer whose payload decodes ends in the data error, with no
\* observation, when its result set is empty (OpenWeather forecast: the
\* entry list; WeatherApi forecast and history: the forecastday list, or the
\* hour list of the first day), and in an observation when it is not.
C15_EmptyResultIsDataError ==
    /\ OwForecastDecoded =>
          IF Len(Unwrap(Json.list)) = 0
          THEN ReturnedErr("NoData") /\ NoObservation
          ELSE ReturnedOk
    /\ WaForecastDecoded =>
          LET days == Unwrap(Unwrap(Json.forecast).forecastday)
          IN  IF Len(days) = 0 \/ Len(Unwrap(days[1].hour)) = 0
              THEN ReturnedErr("NoData") /\ NoObservation
              ELSE ReturnedOk

\* ---------------------------------------------------------------- C16
WaCurrentDecoded ==
    AnsweredJson /\ Asked(WA_CURRENT_URL) /\ DecodesWaResponse(Json)

\* C16: on the current path of WeatherApi a payload that decodes, with or
\* without its timestamp fields, gives an observation; its observation_time
\* is last_updated_epoch when the payload has it, else the location's
\* localtime_epoch when the payload has that, else the now that get_weather
\* read when it was called.
C16_ObservationTimeFallback ==
    WaCurrentDecoded =>
        /\ ReturnedOk
        /\ LET last_updated_epoch == Unwrap(Json.current).last_updated_epoch
               localtime_epoch == Unwrap(Json.location).localtime_epoch
           IN  Unwrap(call.obs).observation_time =
                   IF IsSome(last_updated_epoch) THEN Unwrap(last_updated_epoch)
                   ELSE IF IsSome(localtime_epoch) THEN Unwrap(localtime_epoch)
                   ELSE Unwrap(call.now)

\* ---------------------------------------------------------------- C17
\* The configuration config.toml holds, now and before the last command.
Stored == load(disk).cfg
StoredBefore == load(cli.before).cfg
Ran(op) == cli.op = op

\* C17: from the empty configuration, after any run of `configure` and
\* `provider use` commands, failing ones among them, a default provider
\* that is set has a stored key; `provider use p` for a p without a stored
\* key fails and leaves the configuration as it was; and no command removes
\* a key or clears the default.
C17_DefaultHasKey ==
    /\ load(disk).ok
    /\ IsSome(Stored.default_provider) =>
          /\ default_provider_id(Stored).ok
          /\ is_provider_configured(Stored, default_provider_id(Stored).id)
    /\ (Ran("provider use") /\ try_from(cli.arg).ok
           /\ ~is_provider_configured(StoredBefore, try_from(cli.arg).id))
          => ~cli.ok /\ disk = cli.before
    /\ (Ran("configure") \/ Ran("provider use")) =>
          /\ DOMAIN StoredBefore.providers \subseteq DOMAIN Stored.providers
          /\ IsSome(StoredBefore.default_provider)
                => IsSome(Stored.default_provider)
          /\ ~cli.ok => disk = cli.before

\* `provider use weatherapi` was refused while only openweather, the
\* default, had a key.
C17_UseUnconfiguredRefused ==
    /\ Ran("provider use") /\ cli.arg = StrWeatherapi /\ ~cli.ok
    /\ Unwrap(cli.err).kind = "NotConfigured"
    /\ default_provider_id(Stored).ok
    /\ default_provider_id(Stored).id = "OpenWeather"
    /\ ~is_provider_configured(Stored, "WeatherApi")
    /\ disk = cli.before

====
